---- MODULE Spec2Model ----
(***************************************************************************)
(* Model of the cloth simulator (engine/simulator.py, engine/solver.py),   *)
(* of the key handlers of main.py that act on it, and of the B-spline      *)
(* surface of engine/b_spline_surface.py (control net, knot vectors,       *)
(* triangle list, de Boor evaluation).                                     *)
(*                                                                         *)
(* Numbers.  The source computes in f32.  The model computes in integers:  *)
(* a position is a 3-tuple of integers in a fixed-point length unit, time  *)
(* is counted in ticks (dt ticks per frame), and a knot is a fraction      *)
(* <<numerator, denominator>>.  The rest meshes are chosen so that every   *)
(* rest length is an even integer, hence 0.5 * l0 is exact.  A vector that *)
(* is NaN in the source is the empty tuple NaNVec.                         *)
(*                                                                         *)
(* Indices.  Vertices and edges are numbered from 0, as in the source.     *)
(***************************************************************************)
EXTENDS Integers, Sequences, FiniteSets, TLC

VARIABLES
    mesh,   \* the mesh the simulators were constructed from (OBJLoader data)
    sim,    \* the ClothSimulator object (its fields, and its solver's fields)
    twin,   \* a second ClothSimulator, driven by the same calls as sim
    last,   \* what the last operation on sim was and how it ran
    cmp,    \* bookkeeping of the two-simulator comparisons
    kn,     \* the knot vector builder: its arguments and its result
    bs,     \* the BSplineSurface object (its fields), and how it was built
    ui      \* the local variables of main(): the objects it holds, the
            \* state of the buttons and the position in the main loop

vars == <<mesh, sim, twin, last, cmp, kn, bs, ui>>

----------------------------------------------------------------------------
(* Vectors                                                                 *)

NaNVec == <<>>

IsNaN(a) == a = NaNVec

Zero3 == <<0, 0, 0>>

VAdd(a, b) ==
    IF IsNaN(a) \/ IsNaN(b) THEN NaNVec
    ELSE <<a[1] + b[1], a[2] + b[2], a[3] + b[3]>>

VSub(a, b) ==
    IF IsNaN(a) \/ IsNaN(b) THEN NaNVec
    ELSE <<a[1] - b[1], a[2] - b[2], a[3] - b[3]>>

\* scalar * vector
VScale(k, a) ==
    IF IsNaN(a) THEN NaNVec ELSE <<k * a[1], k * a[2], k * a[3]>>

\* vector / scalar (the scalar divides every component exactly wherever the
\* model uses it on a path the program takes); x / 0 of the source's floats
\* is NaN for a zero numerator, which is the only case the model meets
VDiv(a, k) ==
    IF IsNaN(a) \/ k = 0 THEN NaNVec
    ELSE <<a[1] \div k, a[2] \div k, a[3] \div k>>

RECURSIVE SqrtFrom(_, _)
SqrtFrom(n, r) == IF (r + 1) * (r + 1) > n THEN r ELSE SqrtFrom(n, r + 1)

\* Vector.norm(): the square root, rounded down to the length unit
Norm(a) == SqrtFrom(a[1] * a[1] + a[2] * a[2] + a[3] * a[3], 0)

----------------------------------------------------------------------------
(* Meshes (OBJLoader output: vertices_np, edges_np)                        *)

\* a hanging chain of three vertices and a right triangle (sides 6, 8, 10)
Meshes ==
    { [vertices |-> (0 :> <<0, 0, 0>> @@ 1 :> <<0, -2, 0>> @@ 2 :> <<0, -4, 0>>),
       edges    |-> (0 :> <<0, 1>> @@ 1 :> <<1, 2>>)],
      [vertices |-> (0 :> <<0, 0, 0>> @@ 1 :> <<6, 0, 0>> @@ 2 :> <<0, 8, 0>>),
       edges    |-> (0 :> <<0, 1>> @@ 1 :> <<1, 2>> @@ 2 :> <<0, 2>>)] }

\* the time step, in ticks
dt == 2

gravity == <<0, -1, 0>>

\* values of the "Stretch Stiffness" slider and constructor argument
StiffnessChoices == {1, 3}

\* values of the "Substeps" slider and constructor argument (each divides dt)
SubstepChoices == {1, 2}

\* values wind_dir * random_strength takes for one particle
WindForces == {<<5, 1, 0>>, <<0, 1, -5>>}

Verts(s) == 0 .. (s.num_vertices - 1)

EdgeIds(s) == 0 .. (s.num_edges - 1)

----------------------------------------------------------------------------
(* ClothSimulator: construction                                            *)

\* init_edge with a fault: the half rest length reaches the first endpoint only
init_edge_first_endpoint_only(s, i) ==
    LET v0 == s.ti_edges[i][1]
        v1 == s.ti_edges[i][2]
        li == Norm(VSub(s.x0[v0], s.x0[v1]))
    IN  [s EXCEPT !.l0 = [@ EXCEPT ![i] = li],
                  !.m_inv = [@ EXCEPT ![v0] = @ + (li \div 2)]]

\* one iteration of the loop of init_m_inv_l0, on edge i
init_edge(s, i) ==
    LET v0 == s.ti_edges[i][1]
        v1 == s.ti_edges[i][2]
        li == Norm(VSub(s.x0[v0], s.x0[v1]))
        m1 == [s.m_inv EXCEPT ![v0] = @ + (li \div 2)]
        m2 == [m1 EXCEPT ![v1] = @ + (li \div 2)]
    IN  [s EXCEPT !.l0 = [@ EXCEPT ![i] = li], !.m_inv = m2]

RECURSIVE init_m_inv_l0_from(_, _)
init_m_inv_l0_from(s, i) ==
    IF i >= s.num_edges THEN s
    ELSE init_m_inv_l0_from(init_edge(s, i), i + 1)

init_m_inv_l0(s) == init_m_inv_l0_from(s, 0)

\* XPBDSolver.__init__: the solver keeps its own substep count and dt_sub
XPBDSolver(s, num_substeps) ==
    [s EXCEPT !.solver_num_substeps = num_substeps,
              !.solver_dt_sub = s.dt \div num_substeps]

\* ClothSimulator.__init__ with fill_taichi_fields and
\* init_simulation_variables
ClothSimulator(m, stretch_stiffness, num_substeps) ==
    LET nv == Cardinality(DOMAIN m.vertices)
        ne == Cardinality(DOMAIN m.edges)
        s0 == [ num_vertices |-> nv,
                num_edges |-> ne,
                ti_edges |-> m.edges,
                dt |-> dt,
                gravity |-> gravity,
                sim_frame |-> 0,
                x0 |-> m.vertices,
                x_cur |-> m.vertices,
                x_tilde |-> m.vertices,
                v |-> [i \in 0 .. (nv - 1) |-> Zero3],
                dx |-> [i \in 0 .. (nv - 1) |-> Zero3],
                dv |-> [i \in 0 .. (nv - 1) |-> Zero3],
                nc |-> [i \in 0 .. (nv - 1) |-> 0],
                fixed |-> [i \in 0 .. (nv - 1) |-> 1],
                m_inv |-> [i \in 0 .. (nv - 1) |-> 0],
                l0 |-> [i \in 0 .. (ne - 1) |-> 0],
                enable_wind |-> FALSE,
                stretch_stiffness |-> stretch_stiffness,
                bending_stiffness |-> stretch_stiffness,
                num_substeps |-> num_substeps,
                solver_num_substeps |-> 0,
                solver_dt_sub |-> 0 ]
    IN  XPBDSolver(init_m_inv_l0(s0), num_substeps)

----------------------------------------------------------------------------
(* ClothSimulator: the kernels of a step                                   *)

\* predict_x_tilde with a fault: it integrates x_cur in place, unmasked
predict_in_place_unmasked(s) ==
    [s EXCEPT !.x_cur = [i \in Verts(s) |->
        VAdd(s.x_cur[i],
             VAdd(VScale(s.dt, s.v[i]), VScale(s.dt * s.dt, s.gravity)))]]

\* predict_x_tilde with a fault: the prediction is stored into x_cur
predict_into_x_cur(s) ==
    [s EXCEPT !.x_cur = [i \in Verts(s) |->
        VAdd(s.x_cur[i],
             VScale(s.fixed[i],
                    VAdd(VScale(s.dt, s.v[i]),
                         VScale(s.dt * s.dt, s.gravity))))]]

predict_x_tilde(s) ==
    [s EXCEPT !.x_tilde = [i \in Verts(s) |->
        VAdd(s.x_cur[i],
             VScale(s.fixed[i],
                    VAdd(VScale(s.dt, s.v[i]),
                         VScale(s.dt * s.dt, s.gravity))))]]

\* the particles apply_wind draws random numbers for
Movable(s) == {i \in Verts(s) : s.fixed[i] = 1}

\* w[i] is the wind_force the two ti.random() draws give particle i
apply_wind(s, w) ==
    [s EXCEPT !.x_tilde = [i \in Verts(s) |->
        IF s.fixed[i] = 1
        THEN VAdd(s.x_tilde[i], VScale(s.dt * s.dt, w[i]))
        ELSE s.x_tilde[i]]]

compute_v(s) ==
    [s EXCEPT !.v = [i \in Verts(s) |->
        VDiv(VScale(s.fixed[i], VSub(s.x_tilde[i], s.x_cur[i])), s.dt)]]

update_x(s) ==
    [s EXCEPT !.x_cur = [i \in Verts(s) |->
        VAdd(s.x_cur[i], VScale(s.fixed[i] * s.dt, s.v[i]))]]

----------------------------------------------------------------------------
(* XPBDSolver                                                              *)

\* schur of edge i (lines 48-49)
schur_of(s, i) ==
    LET v0 == s.ti_edges[i][1]
        v1 == s.ti_edges[i][2]
    IN  s.fixed[v0] * s.m_inv[v0] + s.fixed[v1] * s.m_inv[v1]

\* the Lagrange step ld of edge i (lines 41-51), as the fraction
\* <<numerator, denominator>>; no case of schur is treated apart
lagrange_step(s, i, compliance_stretch) ==
    LET x01 == VSub(s.x_tilde[s.ti_edges[i][1]], s.x_tilde[s.ti_edges[i][2]])
        lij == IF IsNaN(x01) THEN 0 ELSE Norm(x01)
        C == lij - s.l0[i]
    IN  <<compliance_stretch * C, compliance_stretch * schur_of(s, i) + 1>>

\* x_tilde[v0] -= fixed * m_inv * ld * x01.normalized(), then
\* x_tilde[v1] += fixed * m_inv * ld * x01.normalized() (lines 53-54)
move_ends(s, v0, v1, ld, x01) ==
    LET lij == IF IsNaN(x01) THEN 0 ELSE Norm(x01)
        d0 == VDiv(VScale(s.fixed[v0] * s.m_inv[v0] * ld[1], x01), ld[2] * lij)
        d1 == VDiv(VScale(s.fixed[v1] * s.m_inv[v1] * ld[1], x01), ld[2] * lij)
        t0 == [s.x_tilde EXCEPT ![v0] = VSub(@, d0)]
        t1 == [t0 EXCEPT ![v1] = VAdd(@, d1)]
    IN  [s EXCEPT !.x_tilde = t1]

\* the two position updates of one iteration (lines 43-54), given the
\* Lagrange step ld of the edge <<v0, v1>>
apply_ld(s, v0, v1, ld) ==
    move_ends(s, v0, v1, ld, VSub(s.x_tilde[v0], s.x_tilde[v1]))

\* the correction of edge i: one iteration of the serialized loop of
\* solve_distance_constraints.  ld is the fraction ld_num / ld_den; the
\* displacement m_inv * ld * x01 / lij is rounded once, to the length unit.
\* x01.normalized() of a zero vector is 0 / 0 = NaN, and NaN times the
\* factor fixed * m_inv * ld is NaN, also when that factor is 0.
solve_edge(s, i, compliance_stretch) ==
    apply_ld(s, s.ti_edges[i][1], s.ti_edges[i][2],
             lagrange_step(s, i, compliance_stretch))

\* the loop with a fault: the edges are taken from the last to the first
RECURSIVE solve_edges_last_first(_, _, _)
solve_edges_last_first(s, i, compliance_stretch) ==
    IF i >= s.num_edges THEN s
    ELSE solve_edge(solve_edges_last_first(s, i + 1, compliance_stretch), i,
                    compliance_stretch)

RECURSIVE solve_edges_from(_, _, _)
solve_edges_from(s, i, compliance_stretch) ==
    IF i >= s.num_edges THEN s
    ELSE solve_edges_from(solve_edge(s, i, compliance_stretch), i + 1,
                          compliance_stretch)

\* the kernel: one sweep over the edges in index order (serialize=True);
\* compliance_bending is not read
solve_distance_constraints(s, compliance_stretch, compliance_bending) ==
    solve_edges_from(s, 0, compliance_stretch)

\* the parameters, after self, of the two callables of the solver
apply_constraints_params == <<"stretch_stiffness", "dt_sub">>

solve_distance_constraints_params == <<"compliance_stretch", "compliance_bending">>

\* a Python call binds its positional arguments only when there is one per
\* parameter; otherwise it raises TypeError before the body runs
Binds(args, params) == Len(args) = Len(params)

\* an execution of step: the simulator, whether an exception is propagating,
\* the phases that ran, the scale term computed and the sweeps completed
Raise(e) == [e EXCEPT !.raised = TRUE]

\* the call self.solve_distance_constraints(compliance_stretch)
call_solve_distance_constraints(e, args) ==
    IF ~Binds(args, solve_distance_constraints_params) THEN Raise(e)
    ELSE [e EXCEPT !.s = solve_distance_constraints(e.s, args[1], args[2]),
                   !.sweeps = @ + 1]

RECURSIVE sweeps_loop(_, _, _)
sweeps_loop(e, compliance_stretch, n) ==
    IF n <= 0 \/ e.raised THEN e
    ELSE sweeps_loop(call_solve_distance_constraints(e, <<compliance_stretch>>),
                     compliance_stretch, n - 1)

\* the call of apply_constraints with the argument tuple args
apply_constraints(e, args) ==
    IF ~Binds(args, apply_constraints_params) THEN Raise(e)
    ELSE LET stretch_stiffness == args[1]
             dt_sub == args[2]
             compliance_stretch == stretch_stiffness * dt_sub * dt_sub
             e1 == [e EXCEPT !.phases = Append(@, "sweeps"),
                             !.compliance = <<compliance_stretch>>]
         IN  sweeps_loop(e1, compliance_stretch, e.s.solver_num_substeps)

----------------------------------------------------------------------------
(* ClothSimulator.step and ClothSimulator.reset                            *)

\* wind_phase with a fault: the wind is applied whatever enable_wind says
wind_phase_unconditional(e, w) ==
    [e EXCEPT !.s = apply_wind(e.s, w), !.phases = Append(@, "wind")]

\* if self.enable_wind: self.apply_wind()
wind_phase(e, w) ==
    IF e.s.enable_wind
    THEN [e EXCEPT !.s = apply_wind(e.s, w), !.phases = Append(@, "wind")]
    ELSE e

\* the arguments step passes to apply_constraints
step_call_args(s) == <<s.stretch_stiffness, s.bending_stiffness, s.num_substeps>>

\* ClothSimulator.step; a statement after a raised exception does not run
step(s, w) ==
    LET e0 == [s |-> s, raised |-> FALSE, phases |-> <<>>,
               compliance |-> <<>>, sweeps |-> 0]
        e1 == [e0 EXCEPT !.s = predict_x_tilde(s),
                         !.phases = Append(@, "predict")]
        e2 == wind_phase(e1, w)
        e3 == apply_constraints(e2, step_call_args(e2.s))
        e4 == IF e3.raised THEN e3
              ELSE [e3 EXCEPT !.s = compute_v(e3.s),
                              !.phases = Append(@, "compute_v")]
        e5 == IF e4.raised THEN e4
              ELSE [e4 EXCEPT !.s = update_x(e4.s),
                              !.phases = Append(@, "update_x")]
    IN  IF e5.raised THEN e5
        ELSE [e5 EXCEPT !.s = [e5.s EXCEPT !.sim_frame = @ + 1]]

\* reset with a fault: x_tilde is not restored
reset_keeps_x_tilde(s) ==
    [s EXCEPT !.x_cur = s.x0,
              !.v = [i \in Verts(s) |-> Zero3],
              !.dx = [i \in Verts(s) |-> Zero3],
              !.dv = [i \in Verts(s) |-> Zero3],
              !.nc = [i \in Verts(s) |-> 0],
              !.sim_frame = 0]

\* reset with a fault: the rest lengths and masses are accumulated again
reset_accumulates_again(s) ==
    init_m_inv_l0([s EXCEPT !.x_cur = s.x0,
                            !.x_tilde = s.x0,
                            !.v = [i \in Verts(s) |-> Zero3],
                            !.dx = [i \in Verts(s) |-> Zero3],
                            !.dv = [i \in Verts(s) |-> Zero3],
                            !.nc = [i \in Verts(s) |-> 0],
                            !.sim_frame = 0])

reset(s) ==
    [s EXCEPT !.x_cur = s.x0,
              !.x_tilde = s.x0,
              !.v = [i \in Verts(s) |-> Zero3],
              !.dx = [i \in Verts(s) |-> Zero3],
              !.dv = [i \in Verts(s) |-> Zero3],
              !.nc = [i \in Verts(s) |-> 0],
              !.sim_frame = 0]

----------------------------------------------------------------------------
(* main.py: the handlers that act on the simulator                         *)

\* key 'f': every selected vertex is pinned
fix_selected_particles(s, selected) ==
    [s EXCEPT !.fixed = [i \in Verts(s) |-> IF i \in selected THEN 0 ELSE @[i]]]

\* key 'r': every vertex is movable again
reset_fixed(s) ==
    [s EXCEPT !.fixed = [i \in Verts(s) |-> 1]]

\* gui_options: the sliders and the wind checkbox are copied into the simulator
gui_options(s, stiffness, substeps, wind) ==
    [s EXCEPT !.stretch_stiffness = stiffness,
              !.bending_stiffness = stiffness,
              !.num_substeps = substeps,
              !.enable_wind = wind]

----------------------------------------------------------------------------
(* The state machine of one simulator                                      *)

NoKnots == [n |-> 0, order |-> 0, periodic |-> FALSE, built |-> FALSE, knots |-> <<>>]

\* no BSplineSurface has been constructed
NoSurface == [built |-> FALSE]

\* the main loop is not running
NoUi == [pc |-> "off"]

\* the record of an operation that is no step: op names it, frame_before is
\* the frame counter it found, moved tells whether a reset found x_tilde off x0
Constructed(op) ==
    [op |-> op, raised |-> FALSE, phases |-> <<>>, compliance |-> <<>>,
     sweeps |-> 0, frame_before |-> 0, moved |-> FALSE]

Init ==
    /\ mesh \in Meshes
    /\ \E k \in StiffnessChoices, n \in SubstepChoices :
           sim = ClothSimulator(mesh, k, n)
    /\ twin = sim
    /\ last = Constructed("init")
    /\ cmp = [mode |-> "single", wind_seen |-> FALSE]
    /\ kn = NoKnots
    /\ ui = NoUi
    /\ bs = NoSurface

\* one call of simulator.step(); w holds the random draws of apply_wind
Step ==
    \E w \in [Movable(sim) -> WindForces] :
        LET e == step(sim, w)
        IN  /\ sim' = e.s
            /\ last' = [op |-> "step", raised |-> e.raised, phases |-> e.phases,
                        compliance |-> e.compliance, sweeps |-> e.sweeps,
                        frame_before |-> sim.sim_frame, moved |-> FALSE]
            /\ UNCHANGED <<mesh, twin, cmp, kn, bs, ui>>

\* the "Stop" button: simulator.reset()
Reset ==
    /\ sim' = reset(sim)
    /\ last' = [Constructed("reset") EXCEPT !.frame_before = sim.sim_frame,
                                            !.moved = sim.x_tilde # sim.x0]
    /\ UNCHANGED <<mesh, twin, cmp, kn, bs, ui>>

Pin ==
    \E selected \in SUBSET Verts(sim) :
        /\ sim' = fix_selected_particles(sim, selected)
        /\ last' = [Constructed("pin") EXCEPT !.frame_before = sim.sim_frame]
        /\ UNCHANGED <<mesh, twin, cmp, kn, bs, ui>>

Unpin ==
    /\ sim' = reset_fixed(sim)
    /\ last' = [Constructed("unpin") EXCEPT !.frame_before = sim.sim_frame]
    /\ UNCHANGED <<mesh, twin, cmp, kn, bs, ui>>

SetParams ==
    \E k \in StiffnessChoices, n \in SubstepChoices, wind \in BOOLEAN :
        /\ sim' = gui_options(sim, k, n, wind)
        /\ last' = [Constructed("params") EXCEPT !.frame_before = sim.sim_frame]
        /\ UNCHANGED <<mesh, twin, cmp, kn, bs, ui>>

Next == Step \/ Reset \/ Pin \/ Unpin \/ SetParams

Spec == Init /\ [][Next]_vars

----------------------------------------------------------------------------
(* Claims about one simulator, checked under Spec                          *)

RECURSIVE SumOver(_, _)
SumOver(S, f) ==
    IF S = {} THEN 0
    ELSE LET x == CHOOSE y \in S : TRUE IN f[x] + SumOver(S \ {x}, f)

IncidentEdges(s, i) ==
    {e \in EdgeIds(s) : s.ti_edges[e][1] = i \/ s.ti_edges[e][2] = i}

\* C1: a Step call leaves x_cur of every pinned particle (fixed = 0) as it
\* was, with wind enabled or disabled and for every stiffness and substep
\* count; hence so does every sequence of Step calls.
PinInvariant ==
    [][\A i \in Verts(sim) :
          (last'.op = "step" /\ sim.fixed[i] = 0) => sim'.x_cur[i] = sim.x_cur[i]]_vars

\* a Step has run with wind enabled on a simulator with a pinned and a
\* movable particle
PinInvariantWitness ==
    /\ last.op = "step"
    /\ sim.enable_wind
    /\ \E i, j \in Verts(sim) :
           sim.fixed[i] = 0 /\ sim.fixed[j] = 1 /\ sim.x_tilde[j] # sim.x_cur[j]

ExpectedPhases(s) ==
    <<"predict">> \o (IF s.enable_wind THEN <<"wind">> ELSE <<>>)
                  \o <<"sweeps", "compute_v", "update_x">>

\* C2: every Step call runs to completion, performs predict, wind (only when
\* enabled), the constraint sweeps, velocity reconstruction and position
\* commit in this order, and leaves the frame counter one larger.
StepCompletes ==
    last.op = "step" =>
        /\ ~last.raised
        /\ last.phases = ExpectedPhases(sim)
        /\ sim.sim_frame = last.frame_before + 1

\* C3: the number of full edge sweeps one Step executes is the simulator's
\* current substep count.
SweepCountIsSubsteps ==
    last.op = "step" => last.sweeps = sim.num_substeps

\* C4: the scale term of the sweeps of a Step is stiffness * dt_sub * dt_sub
\* with dt_sub = dt / substepCount, for the stiffness and the substep count
\* of that Step.
ScaleTermIsStiffnessDtSub2 ==
    last.op = "step" =>
        last.compliance =
            <<sim.stretch_stiffness * (sim.dt \div sim.num_substeps)
                                    * (sim.dt \div sim.num_substeps)>>

\* C6: after reset(), x_cur and x_tilde equal x0 for every particle, v and
\* the accumulators dx, dv, nc are zero, and the frame counter is 0.
ResetRestores ==
    last.op = "reset" =>
        /\ sim.x_cur = sim.x0
        /\ sim.x_tilde = sim.x0
        /\ \A i \in Verts(sim) :
               /\ sim.v[i] = Zero3
               /\ sim.dx[i] = Zero3
               /\ sim.dv[i] = Zero3
               /\ sim.nc[i] = 0
        /\ sim.sim_frame = 0

\* a reset() that found the predicted positions away from the rest positions,
\* on a simulator with a pinned particle
ResetRestoresWitness ==
    /\ last.op = "reset"
    /\ last.moved
    /\ \E i \in Verts(sim) : sim.fixed[i] = 0

\* C8: after construction, m_inv[i] is half the sum of the rest lengths of
\* the edges incident to vertex i, the rest length of an edge being the
\* distance between the rest positions of its endpoints.
MassInvariant ==
    last.op = "init" =>
        /\ \A e \in EdgeIds(sim) :
               sim.l0[e] = Norm(VSub(mesh.vertices[mesh.edges[e][1]],
                                     mesh.vertices[mesh.edges[e][2]]))
        /\ \A i \in Verts(sim) :
               2 * sim.m_inv[i] = SumOver(IncidentEdges(sim, i), sim.l0)

\* a constructed simulator with a vertex of two incident edges of different
\* rest lengths
MassInvariantWitness ==
    /\ last.op = "init"
    /\ \E i \in Verts(sim) : \E e, f \in IncidentEdges(sim, i) :
           sim.l0[e] # sim.l0[f] /\ sim.m_inv[i] > 0

\* C9: Step and reset() leave the rest lengths l0 and the inverse masses
\* m_inv at the values construction gave them.
RestDataFrozen ==
    LET c == ClothSimulator(mesh, sim.stretch_stiffness, sim.num_substeps)
    IN  sim.l0 = c.l0 /\ sim.m_inv = c.m_inv

\* a reset() after a Step that had moved the predicted positions
RestDataFrozenWitness ==
    /\ last.op = "reset"
    /\ last.moved
    /\ \E i \in Verts(sim) : sim.m_inv[i] > 0
    /\ \E e \in EdgeIds(sim) : sim.l0[e] > 0

\* C30: between the calls (after construction, after reset() and after
\* each Step) x_tilde[i] equals x_cur[i] for every particle i: the predicted
\* and the committed positions differ only inside a Step.
PredictedIsCommitted ==
    \A i \in Verts(sim) : sim.x_tilde[i] = sim.x_cur[i]

----------------------------------------------------------------------------
(* Two simulators driven by the same calls                                 *)

InitPair ==
    /\ mesh \in Meshes
    /\ \E k \in StiffnessChoices, n \in SubstepChoices :
           sim = ClothSimulator(mesh, k, n)
    /\ twin = sim
    /\ last = Constructed("init")
    /\ cmp = [mode |-> "pair", wind_seen |-> FALSE]
    /\ kn = NoKnots
    /\ ui = NoUi
    /\ bs = NoSurface

\* the same step() call on both; each draws its own wind
PairStep ==
    \E w1 \in [Movable(sim) -> WindForces], w2 \in [Movable(twin) -> WindForces] :
        /\ sim' = step(sim, w1).s
        /\ twin' = step(twin, w2).s
        /\ last' = Constructed("step")
        /\ cmp' = [cmp EXCEPT !.wind_seen = @ \/ sim.enable_wind]
        /\ UNCHANGED <<mesh, kn, bs, ui>>

PairPin ==
    \E selected \in SUBSET Verts(sim) :
        /\ sim' = fix_selected_particles(sim, selected)
        /\ twin' = fix_selected_particles(twin, selected)
        /\ last' = Constructed("pin")
        /\ UNCHANGED <<mesh, cmp, kn, bs, ui>>

PairSetParams ==
    \E k \in StiffnessChoices, n \in SubstepChoices, wind \in BOOLEAN :
        /\ sim' = gui_options(sim, k, n, wind)
        /\ twin' = gui_options(twin, k, n, wind)
        /\ last' = Constructed("params")
        /\ UNCHANGED <<mesh, cmp, kn, bs, ui>>

\* the second run is started anew from the state the first is in
PairSync ==
    /\ twin # sim \/ cmp.wind_seen
    /\ twin' = sim
    /\ last' = Constructed("sync")
    /\ cmp' = [cmp EXCEPT !.wind_seen = FALSE]
    /\ UNCHANGED <<mesh, sim, kn, bs, ui>>

NextPair == PairStep \/ PairPin \/ PairSetParams \/ PairSync

SpecPair == InitPair /\ [][NextPair]_vars

\* C5: with wind disabled in every Step since they were in the same state,
\* two simulators that received the same calls have the same x_cur after
\* every step, and the same predicted positions x_tilde and velocities.
TwinDeterminism ==
    (cmp.mode = "pair" /\ ~cmp.wind_seen) =>
        /\ sim.x_cur = twin.x_cur
        /\ sim.x_tilde = twin.x_tilde
        /\ sim.v = twin.v

\* both have stepped without wind, with a pinned and a moved particle, from
\* a common state that an earlier Step with wind had left
TwinDeterminismWitness ==
    /\ cmp.mode = "pair"
    /\ ~cmp.wind_seen
    /\ last.op = "step"
    /\ ~sim.enable_wind
    /\ \E i, j \in Verts(sim) :
           sim.fixed[i] = 0 /\ sim.fixed[j] = 1 /\ sim.x_tilde[j] # sim.x0[j]

----------------------------------------------------------------------------
(* reset() against a freshly constructed simulator                         *)

InitReset ==
    /\ mesh \in Meshes
    /\ \E k \in StiffnessChoices, n \in SubstepChoices :
           sim = ClothSimulator(mesh, k, n)
    /\ twin = sim
    /\ last = Constructed("init")
    /\ cmp = [mode |-> "before", wind_seen |-> FALSE]
    /\ kn = NoKnots
    /\ ui = NoUi
    /\ bs = NoSurface

\* sim is reset; twin becomes a new simulator of the same mesh, given the
\* parameters the coming Step calls have
ResetThenFresh ==
    /\ cmp.mode = "before"
    /\ sim' = reset(sim)
    /\ twin' = gui_options(
                   ClothSimulator(mesh, sim.stretch_stiffness, sim.num_substeps),
                   sim.stretch_stiffness, sim.num_substeps, sim.enable_wind)
    /\ last' = [Constructed("reset") EXCEPT !.moved = sim.x_tilde # sim.x0]
    /\ cmp' = [mode |-> "after", wind_seen |-> FALSE]
    /\ UNCHANGED <<mesh, kn, bs, ui>>

\* the same step() call on the reset simulator and on the fresh one
FreshStep ==
    /\ cmp.mode = "after"
    /\ \E w1 \in [Movable(sim) -> WindForces], w2 \in [Movable(twin) -> WindForces] :
           /\ sim' = step(sim, w1).s
           /\ twin' = step(twin, w2).s
    /\ last' = Constructed("step")
    /\ cmp' = [cmp EXCEPT !.wind_seen = @ \/ sim.enable_wind]
    /\ UNCHANGED <<mesh, kn, bs, ui>>

NextReset ==
    \/ cmp.mode = "before" /\ Next
    \/ ResetThenFresh
    \/ FreshStep

SpecReset == InitReset /\ [][NextReset]_vars

----------------------------------------------------------------------------
(* BSplineSurface.make_knot_vector_np                                      *)

\* largest number of control points and largest order tried
MaxCtrl == 6

MaxTriedOrder == 5

\* a knot is the fraction <<numerator, denominator>>
FracEq(a, b) == a[1] * b[2] = b[1] * a[2]

\* a <= b, for fractions with positive denominators
FracLeq(a, b) == a[1] * b[2] <= b[1] * a[2]

\* make_knot_vector_np with a fault: the interior of the clamped vector is
\* spaced by 1 / (L - 2 order) from 0
make_knot_vector_np_interior_off_by_one(n_ctrl, order, periodic) ==
    IF periodic
    THEN LET L == n_ctrl + 2 * order - 1
         IN  [i \in 0 .. (L - 1) |->
                 IF i = 0 THEN <<0, 1>>
                 ELSE IF i = L - 1 THEN <<1, 1>> ELSE <<i, L - 1>>]
    ELSE LET L == n_ctrl + order
         IN  [i \in 0 .. (L - 1) |->
                 IF order <= i /\ i < L - order
                 THEN <<i - order, L - 2 * order>>
                 ELSE IF i >= L - order THEN <<1, 1>> ELSE <<0, 1>>]

\* make_knot_vector_np with a fault: the closed vector is spaced by 1 / L
make_knot_vector_np_closed_over_L(n_ctrl, order, periodic) ==
    IF periodic
    THEN LET L == n_ctrl + 2 * order - 1
         IN  [i \in 0 .. (L - 1) |->
                 IF i = 0 THEN <<0, 1>>
                 ELSE IF i = L - 1 THEN <<1, 1>> ELSE <<i, L>>]
    ELSE LET L == n_ctrl + order
         IN  [i \in 0 .. (L - 1) |->
                 IF order <= i /\ i < L - order
                 THEN <<i - order + 1, L - 2 * order + 1>>
                 ELSE IF i >= L - order THEN <<1, 1>> ELSE <<0, 1>>]

\* the assignments are applied in the order of the source: zeros, then the
\* slice [:order], then the slice [-order:], then the interior loop
make_knot_vector_np(n_ctrl, order, periodic) ==
    IF periodic
    THEN LET L == n_ctrl + 2 * order - 1
             k0 == [i \in 0 .. (L - 1) |-> <<0, 1>>]
             k1 == [k0 EXCEPT ![0] = <<0, 1>>]
             k2 == [k1 EXCEPT ![L - 1] = <<1, 1>>]
         IN  [i \in 0 .. (L - 1) |->
                 IF 1 <= i /\ i < L - 1 THEN <<i, L - 1>> ELSE k2[i]]
    ELSE LET L == n_ctrl + order
             k0 == [i \in 0 .. (L - 1) |-> <<0, 1>>]
             k1 == [i \in 0 .. (L - 1) |-> IF i < order THEN <<0, 1>> ELSE k0[i]]
             k2 == [i \in 0 .. (L - 1) |->
                       IF i >= L - order THEN <<1, 1>> ELSE k1[i]]
         IN  IF L - 2 * order > 0
             THEN [i \in 0 .. (L - 1) |->
                     IF order <= i /\ i < L - order
                     THEN <<i - order + 1, L - 2 * order + 1>>
                     ELSE k2[i]]
             ELSE k2

InitKnots ==
    /\ mesh = CHOOSE m \in Meshes : Cardinality(DOMAIN m.edges) = 2
    /\ sim = ClothSimulator(mesh, 1, 1)
    /\ twin = sim
    /\ last = Constructed("init")
    /\ cmp = [mode |-> "single", wind_seen |-> FALSE]
    /\ \E n \in 1 .. MaxCtrl, k \in 1 .. MaxTriedOrder, p \in BOOLEAN :
           kn = [n |-> n, order |-> k, periodic |-> p, built |-> FALSE,
                 knots |-> <<>>]
    /\ bs = NoSurface
    /\ ui = NoUi

BuildKnots ==
    /\ ~kn.built
    /\ kn' = [kn EXCEPT !.built = TRUE,
                        !.knots = make_knot_vector_np(kn.n, kn.order, kn.periodic)]
    /\ UNCHANGED <<mesh, sim, twin, last, cmp, bs, ui>>

NextKnots == BuildKnots

SpecKnots == InitKnots /\ [][NextKnots]_vars

ClampedShape(n, k, K) ==
    LET L == n + k
    IN  /\ DOMAIN K = 0 .. (L - 1)
        /\ \A i \in 0 .. (k - 1) : FracEq(K[i], <<0, 1>>)
        /\ \A i \in (L - k) .. (L - 1) : FracEq(K[i], <<1, 1>>)
        /\ \A i \in k .. (n - 1) : FracEq(K[i], <<i - k + 1, L - 2 * k + 1>>)
        /\ (n = 4 /\ k = 4) =>
               K = [i \in 0 .. 7 |-> IF i < 4 THEN <<0, 1>> ELSE <<1, 1>>]

\* C10 as stated: the clamped knot vector for n control points and order k
\* has length n + k, its first k entries 0, its last k entries 1, interior
\* entry i equal to (i - k + 1) / (L - 2k + 1), and is [0,0,0,0,1,1,1,1]
\* for n = 4, k = 4.
ClampedKnotsAnyOrder ==
    (kn.built /\ ~kn.periodic) => ClampedShape(kn.n, kn.order, kn.knots)

\* C10, amended: the same, for n >= k.
ClampedKnots ==
    (kn.built /\ ~kn.periodic /\ kn.n >= kn.order) =>
        ClampedShape(kn.n, kn.order, kn.knots)

\* a clamped vector with at least two interior knots has been built
ClampedKnotsWitness ==
    kn.built /\ ~kn.periodic /\ kn.n >= kn.order + 2 /\ kn.order >= 2

\* C11: the closed (pseudo-periodic) knot vector for n control points and
\* order k has length L = n + 2k - 1, entry 0 equal to 0, last entry equal
\* to 1, every entry i equal to i / (L - 1); it is non-decreasing and lies
\* in [0, 1].
ClosedKnots ==
    (kn.built /\ kn.periodic) =>
        LET L == kn.n + 2 * kn.order - 1
            K == kn.knots
        IN  /\ DOMAIN K = 0 .. (L - 1)
            /\ K[0] = <<0, 1>>
            /\ K[L - 1] = <<1, 1>>
            /\ \A i \in 0 .. (L - 1) : FracEq(K[i], <<i, L - 1>>)
            /\ \A i \in 0 .. (L - 2) : FracLeq(K[i], K[i + 1])
            /\ \A i \in 0 .. (L - 1) :
                   FracLeq(<<0, 1>>, K[i]) /\ FracLeq(K[i], <<1, 1>>)

\* a closed vector with several interior entries has been built
ClosedKnotsWitness ==
    kn.built /\ kn.periodic /\ kn.n >= 3 /\ kn.order >= 2

----------------------------------------------------------------------------
(* Fractions: the f32 scalars of the surface code, kept exact.  A fraction *)
(* is <<numerator, denominator>> with a positive denominator; NaNF is NaN. *)

NaNF == <<0, 0>>

IsNaNF(a) == a[2] = 0

Abs(a) == IF a < 0 THEN -a ELSE a

RECURSIVE Gcd(_, _)
Gcd(a, b) == IF b = 0 THEN a ELSE Gcd(b, a % b)

\* n / d in lowest terms; the only division by 0 of the surface code is 0 / 0
Frac(n, d) ==
    IF d = 0 THEN NaNF
    ELSE LET g == Gcd(Abs(n), Abs(d))
         IN  <<((IF d < 0 THEN -1 ELSE 1) * n) \div g, Abs(d) \div g>>

FAdd(a, b) ==
    IF IsNaNF(a) \/ IsNaNF(b) THEN NaNF
    ELSE Frac(a[1] * b[2] + b[1] * a[2], a[2] * b[2])

FSub(a, b) ==
    IF IsNaNF(a) \/ IsNaNF(b) THEN NaNF
    ELSE Frac(a[1] * b[2] - b[1] * a[2], a[2] * b[2])

FMul(a, b) ==
    IF IsNaNF(a) \/ IsNaNF(b) THEN NaNF ELSE Frac(a[1] * b[1], a[2] * b[2])

FDiv(a, b) ==
    IF IsNaNF(a) \/ IsNaNF(b) THEN NaNF ELSE Frac(a[1] * b[2], a[2] * b[1])

\* comparisons: every comparison with NaN is false
FLess(a, b) == ~IsNaNF(a) /\ ~IsNaNF(b) /\ a[1] * b[2] < b[1] * a[2]

FLeq(a, b) == ~IsNaNF(a) /\ ~IsNaNF(b) /\ FracLeq(a, b)

FEq(a, b) == ~IsNaNF(a) /\ ~IsNaNF(b) /\ FracEq(a, b)

FMin(a, b) == IF FLess(a, b) THEN a ELSE b

FMax(a, b) == IF FLess(b, a) THEN a ELSE b

\* int(round(x)): Python rounds a half to the even neighbour
round(x) ==
    LET q == x[1] \div x[2]
        r == x[1] % x[2]
    IN  IF 2 * r < x[2] THEN q
        ELSE IF 2 * r > x[2] THEN q + 1
        ELSE IF q % 2 = 0 THEN q ELSE q + 1

\* a position as an f32 vector of the surface code
Point(a) == IF IsNaN(a) THEN NaNVec ELSE <<<<a[1], 1>>, <<a[2], 1>>, <<a[3], 1>>>>

\* omega * a + (1.0 - omega) * b, component by component; a NaN operand
\* makes the sum NaN, also under the weight 0
Blend(omega, a, b) ==
    IF IsNaNF(omega) \/ IsNaN(a) \/ IsNaN(b) THEN NaNVec
    ELSE LET c(k) == FAdd(FMul(omega, a[k]), FMul(FSub(<<1, 1>>, omega), b[k]))
         IN  <<c(1), c(2), c(3)>>

----------------------------------------------------------------------------
(* engine/b_spline_surface.py: the BSplineSurface object                   *)

MAX_ORDER == 10

\* what a read of control_net_field outside its shape may return: the field
\* is not bounds-checked, so the read yields whatever the memory holds
OutOfBoundsReads == {Point(<<0, 0, 0>>), Point(<<7, 7, 7>>), NaNVec}

\* len(a) of an array
len(a) == Cardinality(DOMAIN a)

\* the cell a particle is written to (lines 80-83, 103-106)
cell_of(b, i) ==
    LET row == round(FMul(b.uv_mapping[i][1], <<b.num_u - 1, 1>>))
        col == round(FMul(b.uv_mapping[i][2], <<b.num_v - 1, 1>>))
    IN  row * b.num_v + col

\* the particle loop with a fault: a cell that holds a position already is
\* not overwritten
RECURSIVE fill_keeps_first(_, _, _)
fill_keeps_first(b, net, i) ==
    IF i >= len(b.control_vertices) THEN net
    ELSE IF net[cell_of(b, i)] # Zero3
         THEN fill_keeps_first(b, net, i + 1)
         ELSE fill_keeps_first(b,
                  [net EXCEPT ![cell_of(b, i)] = b.control_vertices[i]], i + 1)

\* the particle loop with a fault: a position is added to what the cell holds
RECURSIVE fill_accumulates(_, _, _)
fill_accumulates(b, net, i) ==
    IF i >= len(b.control_vertices) THEN net
    ELSE fill_accumulates(b,
             [net EXCEPT ![cell_of(b, i)] = VAdd(@, b.control_vertices[i])],
             i + 1)

\* the particle loop, in index order, each write overwriting the cell
RECURSIVE fill(_, _, _)
fill(b, net, i) ==
    IF i >= len(b.control_vertices) THEN net
    ELSE fill(b, [net EXCEPT ![cell_of(b, i)] = b.control_vertices[i]], i + 1)

\* the seam copy (lines 87-90): row 0 from row num_u - 1, column by column
RECURSIVE seam(_, _, _)
seam(b, net, i) ==
    IF i >= b.num_v THEN net
    ELSE seam(b, [net EXCEPT ![i] = net[(b.num_u - 1) * b.num_v + i]], i + 1)

\* the padding with a fault: the rows 0 .. order_u - 2 are copied
RECURSIVE pad_from_row_zero(_, _, _)
pad_from_row_zero(b, net, t) ==
    IF t >= (b.order_u - 1) * b.num_v THEN net
    ELSE LET i == 1 + t \div b.num_v
             j == t % b.num_v
             src_idx == (i - 1) * b.num_v + j
             dst_idx == (b.num_u - 1 + i) * b.num_v + j
         IN  pad_from_row_zero(b, [net EXCEPT ![dst_idx] = net[src_idx]], t + 1)

\* the padding (lines 93-97), flattened: t counts the pairs (i, j) in order
RECURSIVE pad(_, _, _)
pad(b, net, t) ==
    IF t >= (b.order_u - 1) * b.num_v THEN net
    ELSE LET i == 1 + t \div b.num_v
             j == t % b.num_v
             src_idx == i * b.num_v + j
             dst_idx == (b.num_u - 1 + i) * b.num_v + j
         IN  pad(b, [net EXCEPT ![dst_idx] = net[src_idx]], t + 1)

reorder_control_net_np(b) ==
    LET filled == fill(b, b.control_net_np, 0)
        net == IF b.is_cylinder THEN pad(b, seam(b, filled, 0), 0) ELSE filled
    IN  [b EXCEPT !.filled = filled, !.control_net_np = net,
                  !.control_net_field = net]

\* make_faces_np: the flattened triangle list; quad q of the loops, in
\* order, contributes the six indices v0 v1 v2 v0 v2 v3
make_faces_np(b) ==
    LET first_range ==
            IF b.is_cylinder
            THEN round(FMul(Frac(b.order_u - 1, b.num_U_knot - 1),
                            <<b.res_u, 1>>)) - 1
            ELSE 0
        last_range ==
            IF b.is_cylinder
            THEN round(FMul(Frac(b.num_u + b.order_u - 2, b.num_U_knot - 1),
                            <<b.res_u, 1>>))
            ELSE b.res_u - 1
        rows == IF last_range > first_range THEN last_range - first_range ELSE 0
        cols == IF b.res_v > 1 THEN b.res_v - 1 ELSE 0
    IN  [t \in 1 .. (6 * rows * cols) |->
            LET q == (t - 1) \div 6
                i == first_range + q \div cols
                j == q % cols
                i_next == (i + 1) % b.res_u
                v0 == i * b.res_v + j
                v1 == i_next * b.res_v + j
                v2 == i_next * b.res_v + (j + 1)
                v3 == i * b.res_v + (j + 1)
            IN  <<v0, v1, v2, v0, v2, v3>>[((t - 1) % 6) + 1]]

\* the largest index of the scan that satisfies the test, or the default
LastMatch(S, default) ==
    IF S = {} THEN default ELSE CHOOSE i \in S : \A j \in S : j <= i

find_knot_index_u(b, u) ==
    IF FEq(u, <<0, 1>>) THEN b.order_u - 1
    ELSE IF FEq(u, <<1, 1>>) THEN b.num_U_knot - b.order_u
    ELSE LastMatch({i \in b.order_u .. (b.num_U_knot - b.order_u - 1) :
                       FLeq(b.U[i], u) /\ FLess(u, b.U[i + 1])},
                   b.order_u - 1)

\* find_knot_index_u_periodic with a fault: the test of the upper bound
\* (lines 201-202) is left out
find_knot_index_u_periodic_without_upper(b, u) ==
    LastMatch({i \in (b.order_u - 1) .. (b.num_u + b.order_u - 3) :
                  FLeq(b.U[i], u) /\ FLess(u, b.U[i + 1])},
              b.order_u - 1)

find_knot_index_u_periodic(b, u) ==
    IF FLeq(b.U[b.num_u + b.order_u - 2], u) THEN b.num_u + b.order_u - 2
    ELSE LastMatch({i \in (b.order_u - 1) .. (b.num_u + b.order_u - 3) :
                       FLeq(b.U[i], u) /\ FLess(u, b.U[i + 1])},
                   b.order_u - 1)

find_knot_index_v(b, v) ==
    IF FEq(v, <<0, 1>>) THEN b.order_v - 1
    ELSE IF FEq(v, <<1, 1>>) THEN b.num_V_knot - b.order_v
    ELSE LastMatch({i \in b.order_v .. (b.num_V_knot - b.order_v - 1) :
                       FLeq(b.V[i], v) /\ FLess(v, b.V[i + 1])},
                   b.order_v - 1)

\* the read self.control_net_field[idx] (line 244); garbage is what a read
\* outside the field returns
control_net_read(b, idx, garbage) ==
    IF idx \in DOMAIN b.control_net_field
    THEN Point(b.control_net_field[idx]) ELSE garbage

\* one pass "for s in range(r - 1)" of the de Boor recurrence over the
\* points D with the knots K at the parameter t and the span d.  The pass
\* writes D[s] from D[s] and D[s + 1] with s ascending, so every right-hand
\* side reads the values the pass started with.
de_boor_pass(D, K, t, d, r) ==
    [s \in DOMAIN D |->
        IF s <= r - 2
        THEN LET p == d - s
                 denom == FSub(K[p + r - 1], K[p])
                 omega == IF FLess(<<1, 1000000>>, denom)
                          THEN FDiv(FSub(t, K[p]), denom) ELSE <<0, 1>>
             IN  Blend(omega, D[s], D[s + 1])
        ELSE D[s]]

\* the passes r = order down to 2; the result is D[0]
RECURSIVE de_boor(_, _, _, _, _)
de_boor(D, K, t, d, r) ==
    IF r < 2 THEN D[0] ELSE de_boor(de_boor_pass(D, K, t, d, r), K, t, d, r - 1)

\* the clamp of u into the knots U[order_u - 1] .. U[num_u + order_u - 2]
\* of the closed surface (lines 223-225)
clamp_u(b, u0) ==
    FMax(b.U[b.order_u - 1], FMin(u0, b.U[b.num_u + b.order_u - 2]))

\* the span indices d_u and d_v of a sample (lines 221-230)
span_u(b, u0) ==
    IF b.is_cylinder THEN find_knot_index_u_periodic(b, clamp_u(b, u0))
    ELSE find_knot_index_u(b, u0)

span_v(b, v) == find_knot_index_v(b, v)

\* the cells <<row_idx, col_idx>> of the control net a sample reads
\* (lines 235-244)
cells_read(b, u0, v) ==
    {<<span_u(b, u0) - i, span_v(b, v) - j>> :
        i \in 0 .. (b.order_u - 1), j \in 0 .. (b.order_v - 1)}

\* de_boor_surface.  D and C are MAX_ORDER x 3 matrices: an order above
\* MAX_ORDER writes outside them, and then the result is anything.
de_boor_surface(b, u0, v, garbage) ==
    LET u == IF b.is_cylinder THEN clamp_u(b, u0) ELSE u0
        d_u == span_u(b, u0)
        d_v == span_v(b, v)
        D(i) == [j \in 0 .. (b.order_v - 1) |->
                    control_net_read(b, (d_u - i) * b.num_v + (d_v - j), garbage)]
        C == [i \in 0 .. (b.order_u - 1) |->
                 de_boor(D(i), b.V, v, d_v, b.order_v)]
    IN  IF b.order_u > MAX_ORDER \/ b.order_v > MAX_ORDER THEN garbage
        ELSE de_boor(C, b.U, u, d_u, b.order_u)

\* the sample idx of the kernel evaluate_surface (lines 172-179)
sample(b, idx, garbage) ==
    LET i == idx \div b.res_v
        j == idx % b.res_v
        u == Frac(i, b.res_u - 1)
        v == Frac(j, b.res_v - 1)
    IN  de_boor_surface(b, u, v, garbage)

\* the orders in which the parallel loop of the kernel may run n samples
SampleOrders(n) ==
    {[t \in 1 .. n |-> t - 1],
     [t \in 1 .. n |-> IF 2 * (t - 1) < n THEN 2 * (t - 1)
                       ELSE 2 * (t - 1 - (n + 1) \div 2) + 1]}

\* the iterations of the loop from position t of the order on
RECURSIVE evaluate_from(_, _, _, _)
evaluate_from(b, order, t, garbage) ==
    IF t > Len(order) THEN b
    ELSE evaluate_from(
             [b EXCEPT !.surface_points_field[order[t]] =
                           sample(b, order[t], garbage)],
             order, t + 1, garbage)

\* evaluate_from with a fault: a sample is stored in the slot after its own
RECURSIVE evaluate_from_next_slot(_, _, _, _)
evaluate_from_next_slot(b, order, t, garbage) ==
    IF t > Len(order) THEN b
    ELSE evaluate_from_next_slot(
             [b EXCEPT !.surface_points_field[(order[t] + 1) % Len(order)] =
                           sample(b, order[t], garbage)],
             order, t + 1, garbage)

\* the kernel evaluate_surface: every sample, each into its own slot of
\* surface_points_field, in the order the parallel loop happens to take
evaluate_surface(b, order, garbage) == evaluate_from(b, order, 1, garbage)

\* evaluate_surface_wrapper with a fault: the triangle list is built again
\* and appended
evaluate_surface_wrapper_appends_faces(b, control_vertices, order, garbage) ==
    LET e == evaluate_surface(
                 reorder_control_net_np(
                     [b EXCEPT !.control_vertices = control_vertices]),
                 order, garbage)
    IN  [e EXCEPT !.surface_faces_np = @ \o make_faces_np(b)]

evaluate_surface_wrapper(b, control_vertices, order, garbage) ==
    evaluate_surface(
        reorder_control_net_np([b EXCEPT !.control_vertices = control_vertices]),
        order, garbage)

\* reset with a fault: the surface is evaluated from positions that are not
\* the initial ones
reset_surface_elsewhere(b, order, garbage) ==
    evaluate_surface_wrapper(
        b, [i \in DOMAIN b.control_vertices_init |->
               VSub(b.control_vertices_init[i], <<0, 3, 0>>)],
        order, garbage)

\* BSplineSurface.reset
reset_surface(b, order, garbage) ==
    evaluate_surface_wrapper(b, b.control_vertices_init, order, garbage)

\* BSplineSurface.__init__; order and garbage are the sample order and the
\* out-of-bounds reads of the first evaluation
BSplineSurface(control_vertices, uv_mapping, num_u, num_v, res_u, res_v, order_u, order_v, is_cylinder, order, garbage) ==
    LET rows == IF is_cylinder THEN num_u + order_u - 1 ELSE num_u
        zeros == [idx \in 0 .. (rows * num_v - 1) |-> Zero3]
        b0 == [built |-> TRUE,
               control_vertices_init |-> control_vertices,
               control_vertices |-> control_vertices,
               uv_mapping |-> uv_mapping,
               num_u |-> num_u, num_v |-> num_v,
               res_u |-> res_u, res_v |-> res_v,
               order_u |-> order_u, order_v |-> order_v,
               is_cylinder |-> is_cylinder,
               num_control_vertices |-> len(control_vertices),
               control_net_np |-> zeros,
               control_net_field |-> zeros,
               filled |-> zeros,
               U |-> <<>>, V |-> <<>>, num_U_knot |-> 0, num_V_knot |-> 0,
               surface_faces_np |-> <<>>,
               surface_points_field |->
                   [idx \in 0 .. (res_u * res_v - 1) |-> Point(Zero3)]]
        b1 == reorder_control_net_np(b0)
        U == make_knot_vector_np(num_u, order_u, is_cylinder)
        V == make_knot_vector_np(num_v, order_v, FALSE)
        b2 == [b1 EXCEPT !.U = U, !.V = V, !.num_U_knot = len(U),
                         !.num_V_knot = len(V)]
        b3 == [b2 EXCEPT !.surface_faces_np = make_faces_np(b2)]
    IN  evaluate_surface_wrapper(b3, b3.control_vertices, order, garbage)

----------------------------------------------------------------------------
(* The arguments of the constructor                                        *)

\* the extreme of a coordinate over the vertices
MinOf(S) == CHOOSE x \in S : \A y \in S : x <= y

MaxOf(S) == CHOOSE x \in S : \A y \in S : y <= x

\* ParametricMapping.compute_uv_mapping: u from x and v from z, normalised
\* to [0, 1] by the extent of the vertices
compute_uv_mapping(vertices) ==
    LET xs == {vertices[i][1] : i \in DOMAIN vertices}
        zs == {vertices[i][3] : i \in DOMAIN vertices}
        x_min == MinOf(xs)
        x_max == MaxOf(xs)
        z_min == MinOf(zs)
        z_max == MaxOf(zs)
    IN  [i \in DOMAIN vertices |->
            <<IF x_max # x_min THEN Frac(vertices[i][1] - x_min, x_max - x_min)
              ELSE <<0, 1>>,
              IF z_max # z_min THEN Frac(vertices[i][3] - z_min, z_max - z_min)
              ELSE <<0, 1>>>>]

\* the vertices of a grid OBJ: vertex r * nv + c lies at x = xs[r + 1],
\* z = zs[c + 1]; the heights tell the vertices apart
GridVertices(xs, zs) ==
    [i \in 0 .. (Len(xs) * Len(zs) - 1) |->
        <<xs[(i \div Len(zs)) + 1], i + 1, zs[(i % Len(zs)) + 1]>>]

\* the positions the main loop passes to evaluate_surface_wrapper: the
\* particles of the rest array, each fallen by 3 k times its index + 1
Fallen(vertices, k) ==
    [i \in DOMAIN vertices |-> VSub(vertices[i], <<0, 3 * k * (i + 1), 0>>)]

Falls == {1, 2}

\* the grids the surfaces are built on: the x and z coordinates of the rows
\* and columns.  In the last one the rows are unevenly spaced, so that two
\* rows of particles map to the same row of cells.
Grids ==
    {<<<<0, 4>>, <<0, 4>>>>, <<<<0, 4, 8>>, <<0, 4>>>>,
     <<<<0, 4>>, <<0, 4, 8>>>>, <<<<0, 4, 8>>, <<0, 4, 8>>>>,
     <<<<0, 1, 4>>, <<0, 4>>>>}

\* the orders and the resolutions the surfaces are built with
Orders == {2, 3}

Resolutions == {2, 3}

InitSurface ==
    /\ mesh = CHOOSE m \in Meshes : Cardinality(DOMAIN m.edges) = 2
    /\ sim = ClothSimulator(mesh, 1, 1)
    /\ twin = sim
    /\ last = Constructed("init")
    /\ cmp = [mode |-> "single", wind_seen |-> FALSE]
    /\ kn = NoKnots
    /\ ui = NoUi
    /\ \E grid \in Grids, is_cylinder \in BOOLEAN,
          garbage \in OutOfBoundsReads :
          LET num_u == Len(grid[1])
              num_v == Len(grid[2])
              vertices == GridVertices(grid[1], grid[2])
          IN  \E order_u \in {k \in Orders : k <= num_u},
                 order_v \in {k \in Orders : k <= num_v},
                 res_u \in Resolutions, res_v \in Resolutions :
                  \E order \in SampleOrders(res_u * res_v) :
                      bs = BSplineSurface(vertices, compute_uv_mapping(vertices),
                                          num_u, num_v, res_u, res_v,
                                          order_u, order_v, is_cylinder,
                                          order, garbage)

\* the main loop after a step: the surface is rebuilt from the positions
EvaluateSurface ==
    \E k \in Falls, garbage \in OutOfBoundsReads,
       order \in SampleOrders(bs.res_u * bs.res_v) :
        /\ bs' = evaluate_surface_wrapper(bs, Fallen(bs.control_vertices_init, k),
                                          order, garbage)
        /\ last' = Constructed("evaluate")
        /\ UNCHANGED <<mesh, sim, twin, cmp, kn, ui>>

\* the "Stop" button: b_spline.reset()
ResetSurface ==
    \E garbage \in OutOfBoundsReads,
       order \in SampleOrders(bs.res_u * bs.res_v) :
        /\ bs' = reset_surface(bs, order, garbage)
        /\ last' = Constructed("reset_surface")
        /\ UNCHANGED <<mesh, sim, twin, cmp, kn, ui>>

NextSurface == EvaluateSurface \/ ResetSurface

SpecSurface == InitSurface /\ [][NextSurface]_vars

\* C12: the open surface evaluated at the parameter corners (0,0), (1,0),
\* (0,1), (1,1) returns the control points of the cells (0,0),
\* (num_u-1,0), (0,num_v-1), (num_u-1,num_v-1), whatever the other control
\* points are.
CornerInterpolation ==
    (bs.built /\ ~bs.is_cylinder) =>
        LET P == bs.surface_points_field
            net == bs.control_net_field
        IN  /\ P[0] = Point(net[0])
            /\ P[(bs.res_u - 1) * bs.res_v] = Point(net[(bs.num_u - 1) * bs.num_v])
            /\ P[bs.res_v - 1] = Point(net[bs.num_v - 1])
            /\ P[bs.res_u * bs.res_v - 1] = Point(net[bs.num_u * bs.num_v - 1])

\* C13: the samples are independent: in whatever order they are evaluated,
\* the sample buffer is the same, a function of the control net and the
\* knot vectors alone, and the evaluation modifies neither of them.
SamplesIndependent ==
    bs.built =>
        \A order \in SampleOrders(bs.res_u * bs.res_v),
           garbage \in OutOfBoundsReads :
            LET e == evaluate_surface(bs, order, garbage)
            IN  /\ e.surface_points_field = bs.surface_points_field
                /\ e.control_net_field = bs.control_net_field
                /\ e.U = bs.U
                /\ e.V = bs.V

\* C14: the triangle index buffer is not changed after construction, by
\* any sequence of evaluate_surface_wrapper and reset calls.
FacesImmutable ==
    [][bs.built => bs'.surface_faces_np = bs.surface_faces_np]_vars

\* a reset after which the surface has triangles
FacesImmutableWitness ==
    /\ bs.built
    /\ last.op = "reset_surface"
    /\ Len(bs.surface_faces_np) >= 12

\* C20: the particle loop writes each particle to the cell
\* (round(u (num_u - 1)), round(v (num_v - 1))); a cell that several
\* particles map to holds the position of the one with the highest index.
ControlNetFill ==
    bs.built =>
        \A i \in DOMAIN bs.control_vertices :
            LET row == round(FMul(bs.uv_mapping[i][1], <<bs.num_u - 1, 1>>))
                col == round(FMul(bs.uv_mapping[i][2], <<bs.num_v - 1, 1>>))
                same == {j \in DOMAIN bs.control_vertices : cell_of(bs, j) = cell_of(bs, i)}
            IN  /\ cell_of(bs, i) = row * bs.num_v + col
                /\ bs.filled[row * bs.num_v + col] = bs.control_vertices[MaxOf(same)]

\* a rebuild from moved positions in which two particles map to one cell
ControlNetFillWitness ==
    /\ bs.built
    /\ last.op = "evaluate"
    /\ \E i, j \in DOMAIN bs.control_vertices :
           /\ i < j
           /\ cell_of(bs, i) = cell_of(bs, j)
           /\ bs.control_vertices[i] # bs.control_vertices[j]
           /\ bs.filled[cell_of(bs, i)] = bs.control_vertices[j]

\* C21: closed topology: after every rebuild the net has
\* num_u + order_u - 1 rows, row 0 equals row num_u - 1, and the padding
\* row num_u - 1 + i equals row i for i in 1 .. order_u - 1, in every column.
SeamPadding ==
    (bs.built /\ bs.is_cylinder) =>
        LET net == bs.control_net_np
        IN  /\ DOMAIN net = 0 .. ((bs.num_u + bs.order_u - 1) * bs.num_v - 1)
            /\ bs.control_net_field = net
            /\ \A col \in 0 .. (bs.num_v - 1) :
                   /\ net[col] = net[(bs.num_u - 1) * bs.num_v + col]
                   /\ \A i \in 1 .. (bs.order_u - 1) :
                          net[(bs.num_u - 1 + i) * bs.num_v + col] =
                              net[i * bs.num_v + col]

\* a rebuild of a closed net from moved positions, whose row 1 differs from
\* its row 0, so that the padding is told apart from a copy of the seam
SeamPaddingWitness ==
    /\ bs.built
    /\ bs.is_cylinder
    /\ last.op = "evaluate"
    /\ bs.control_net_np[bs.num_v] # bs.control_net_np[0]
    /\ bs.control_net_np[bs.num_u * bs.num_v] = bs.control_net_np[bs.num_v]

\* C22: after each rebuild the whole control net is a function of the
\* positions passed to that rebuild: it is the net the same rebuild gives
\* on a net of zeros, whatever the earlier rebuilds wrote.
RebuildFromPositionsOnly ==
    bs.built =>
        LET zeros == [idx \in DOMAIN bs.control_net_np |-> Zero3]
            fresh == reorder_control_net_np([bs EXCEPT !.control_net_np = zeros])
        IN  /\ bs.control_net_np = fresh.control_net_np
            /\ bs.control_net_field = fresh.control_net_np

\* a rebuild from positions other than those of the rebuild before it
RebuildFromPositionsOnlyWitness ==
    /\ bs.built
    /\ last.op = "evaluate"
    /\ bs.control_vertices # bs.control_vertices_init
    /\ bs.control_net_np #
           reorder_control_net_np(
               [bs EXCEPT !.control_vertices = bs.control_vertices_init]).control_net_np

\* the sample row a vertex index of the triangle list lies in
RowOf(index) == index \div bs.res_v

\* C25: closed topology: every sample row a triangle refers to has its
\* parameter u = row / (res_u - 1) inside the knot domain
\* [U[order_u - 1], U[num_u + order_u - 2]], and the quads of row i use the
\* row (i + 1) mod res_u as its successor.
ClosedTessellation ==
    (bs.built /\ bs.is_cylinder) =>
        LET faces == bs.surface_faces_np
            lo == bs.U[bs.order_u - 1]
            hi == bs.U[bs.num_u + bs.order_u - 2]
        IN  /\ \A t \in DOMAIN faces :
                   LET u == Frac(RowOf(faces[t]), bs.res_u - 1)
                   IN  FLeq(lo, u) /\ FLeq(u, hi)
            /\ \A q \in 0 .. ((Len(faces) \div 6) - 1) :
                   LET i == RowOf(faces[6 * q + 1])
                   IN  /\ RowOf(faces[6 * q + 2]) = (i + 1) % bs.res_u
                       /\ RowOf(faces[6 * q + 3]) = (i + 1) % bs.res_u
                       /\ RowOf(faces[6 * q + 6]) = i

\* C28: every control-net cell read during the evaluation of a sample of
\* the res_u x res_v grid lies inside the allocated net: 0 <= row < number
\* of rows and 0 <= column < num_v, for open and for closed topology.
ReadsInsideNet ==
    bs.built =>
        LET rows == IF bs.is_cylinder THEN bs.num_u + bs.order_u - 1
                    ELSE bs.num_u
        IN  \A i \in 0 .. (bs.res_u - 1), j \in 0 .. (bs.res_v - 1) :
                \A cell \in cells_read(bs, Frac(i, bs.res_u - 1),
                                        Frac(j, bs.res_v - 1)) :
                    /\ 0 <= cell[1] /\ cell[1] < rows
                    /\ 0 <= cell[2] /\ cell[2] < bs.num_v

\* C29: every vertex index of the triangle list lies in
\* 0 .. res_u * res_v - 1, for open and for closed topology.
TriangleIndicesInRange ==
    bs.built =>
        \A t \in DOMAIN bs.surface_faces_np :
            /\ 0 <= bs.surface_faces_np[t]
            /\ bs.surface_faces_np[t] < bs.res_u * bs.res_v

----------------------------------------------------------------------------
(* The kernel solve_distance_constraints, called with both its arguments   *)

\* a chain whose last two vertices lie at the same place: edge 1 has rest
\* length 0
DegenerateMesh ==
    [vertices |-> (0 :> <<0, 0, 0>> @@ 1 :> <<0, -2, 0>> @@ 2 :> <<0, -2, 0>>),
     edges    |-> (0 :> <<0, 1>> @@ 1 :> <<1, 2>>)]

\* the sweeps called without a new prediction in between
MaxSweeps == 2

InitSweep ==
    /\ mesh \in Meshes \cup {DegenerateMesh}
    /\ \E k \in StiffnessChoices, n \in SubstepChoices :
           sim = ClothSimulator(mesh, k, n)
    /\ twin = sim
    /\ last = Constructed("init")
    /\ cmp = [mode |-> "single", wind_seen |-> FALSE]
    /\ kn = NoKnots
    /\ ui = NoUi
    /\ bs = NoSurface

\* one call solve_distance_constraints(compliance_stretch,
\* compliance_bending) with the scale term of the simulator's stiffness and
\* the solver's dt_sub; before is the simulator the call found
Sweep ==
    /\ last.sweeps < MaxSweeps
    /\ LET compliance_stretch ==
               sim.stretch_stiffness * sim.solver_dt_sub * sim.solver_dt_sub
       IN  /\ sim' = solve_distance_constraints(sim, compliance_stretch,
                                                compliance_stretch)
           /\ last' = [op |-> "sweep", raised |-> FALSE, phases |-> <<>>,
                       compliance |-> <<compliance_stretch>>,
                       sweeps |-> last.sweeps + 1,
                       frame_before |-> sim.sim_frame, moved |-> FALSE,
                       before |-> sim]
    /\ UNCHANGED <<mesh, twin, cmp, kn, bs, ui>>

\* fix_selected_particles between two sweeps; the count of sweeps since the
\* last prediction is kept
SweepPin ==
    \E selected \in SUBSET Verts(sim) :
        /\ sim' = fix_selected_particles(sim, selected)
        /\ last' = [Constructed("pin") EXCEPT !.frame_before = sim.sim_frame,
                                              !.sweeps = last.sweeps]
        /\ UNCHANGED <<mesh, twin, cmp, kn, bs, ui>>

NextSweep == Step \/ Reset \/ SweepPin \/ Sweep

SpecSweep == InitSweep /\ [][NextSweep]_vars

\* the simulator before edge i of the last sweep was processed: the
\* corrections of the edges 0 .. i - 1, one after another
RECURSIVE BeforeEdge(_)
BeforeEdge(i) ==
    IF i = 0 THEN last.before
    ELSE solve_edge(BeforeEdge(i - 1), i - 1, last.compliance[1])

\* the endpoints of edge i lie at the same place in s
ZeroLength(s, i) == s.x_tilde[s.ti_edges[i][1]] = s.x_tilde[s.ti_edges[i][2]]

\* C17: an edge whose endpoints have the same predicted position when it
\* is processed in a sweep is left alone: x_tilde of both endpoints is
\* unchanged and finite.
ZeroLengthNoOp ==
    last.op = "sweep" =>
        \A i \in EdgeIds(sim) :
            (ZeroLength(BeforeEdge(i), i) /\ ~IsNaN(BeforeEdge(i).x_tilde[sim.ti_edges[i][1]])) =>
                \A e \in 1 .. 2 :
                    LET v == sim.ti_edges[i][e]
                    IN  /\ BeforeEdge(i + 1).x_tilde[v] = BeforeEdge(i).x_tilde[v]
                        /\ ~IsNaN(BeforeEdge(i + 1).x_tilde[v])

\* C18: when schur is 0 for an edge, the Lagrange step computed for it is 0.
SchurZeroNoStep ==
    last.op = "sweep" =>
        \A i \in EdgeIds(sim) :
            schur_of(BeforeEdge(i), i) = 0 =>
                lagrange_step(BeforeEdge(i), i, last.compliance[1])[1] = 0

\* C19: a sweep processes the edges one after another in index order, the
\* correction of edge i computed from the x_tilde the correction of edge
\* i - 1 left: the sweep ends with what the chain of corrections 0, 1, ...
\* ends with.
GaussSeidelOrder ==
    last.op = "sweep" => sim.x_tilde = BeforeEdge(sim.num_edges).x_tilde

\* a sweep in which an edge moved a vertex of a later edge, which then
\* moved as well: the later correction differs from the one the values at
\* the start of the sweep give
GaussSeidelOrderWitness ==
    /\ last.op = "sweep"
    /\ \E i \in EdgeIds(sim) :
           /\ i > 0
           /\ BeforeEdge(i).x_tilde # last.before.x_tilde
           /\ BeforeEdge(i + 1).x_tilde # BeforeEdge(i).x_tilde
           /\ \A v \in Verts(sim) : ~IsNaN(sim.x_tilde[v])
           /\ solve_edge(last.before, i, last.compliance[1]).x_tilde[sim.ti_edges[i][1]]
                  # VAdd(last.before.x_tilde[sim.ti_edges[i][1]],
                         VSub(BeforeEdge(i + 1).x_tilde[sim.ti_edges[i][1]],
                              BeforeEdge(i).x_tilde[sim.ti_edges[i][1]]))

----------------------------------------------------------------------------
(* Construction from arbitrary arguments                                   *)

\* no ClothSimulator has been constructed
NoSimulator == [built |-> FALSE]

\* a chain with an edge from vertex 1 to itself
SelfLoopMesh ==
    [vertices |-> (0 :> <<0, 0, 0>> @@ 1 :> <<0, -2, 0>> @@ 2 :> <<0, -4, 0>>),
     edges    |-> (0 :> <<0, 1>> @@ 1 :> <<1, 1>>)]

\* substep counts, orders, resolutions and grid sizes a caller may pass
AnySubsteps == {-1, 0, 1, 2}

AnyOrders == {2, MAX_ORDER + 1}

AnyResolutions == {1, 2}

AnyGridSizes == {2, 3}

\* the call ClothSimulator(...) raises exactly when XPBDSolver.__init__
\* divides dt by a substep count of 0 (ZeroDivisionError); no argument is
\* examined, and fill_taichi_fields and init_simulation_variables catch
\* and print every exception of theirs
ClothSimulator_raises(m, stretch_stiffness, num_substeps) == num_substeps = 0

InitConfig ==
    /\ mesh = CHOOSE m \in Meshes : Cardinality(DOMAIN m.edges) = 2
    /\ sim = NoSimulator
    /\ twin = NoSimulator
    /\ last = Constructed("init")
    /\ cmp = [mode |-> "single", wind_seen |-> FALSE]
    /\ kn = NoKnots
    /\ ui = NoUi
    /\ bs = NoSurface

\* simulator = ClothSimulator(model, ..., num_substeps = n), the first
\* object main constructs; an exception ends the program
ConstructSimulator ==
    /\ sim = NoSimulator
    /\ ~last.raised
    /\ \E m \in {mesh, SelfLoopMesh}, n \in AnySubsteps :
           IF ClothSimulator_raises(m, 1, n)
           THEN /\ last' = Raise(Constructed("ClothSimulator"))
                /\ UNCHANGED <<mesh, sim, twin, ui>>
           ELSE /\ last' = Constructed("ClothSimulator")
                /\ mesh' = m
                /\ sim' = ClothSimulator(m, 1, n)
                /\ twin' = sim'
    /\ UNCHANGED <<cmp, kn, bs, ui>>

\* b_spline = BSplineSurface(vertices, mapping, num_u, num_v, res_u, res_v,
\* order_u, order_v, is_cylinder), constructed after the simulator:
\* nothing raises, the constructor builds the net, the knots and the faces
\* and evaluates the surface
ConstructSurface ==
    /\ sim # NoSimulator
    /\ bs = NoSurface
    /\ \E num_u \in AnyGridSizes, order_u \in AnyOrders, order_v \in AnyOrders,
          res_u \in AnyResolutions, res_v \in AnyResolutions,
          grid \in {g \in Grids : Len(g[2]) = 2}, is_cylinder \in BOOLEAN,
          garbage \in OutOfBoundsReads :
           LET vertices == GridVertices(grid[1], grid[2])
           IN  \E order \in SampleOrders(res_u * res_v) :
                   bs' = BSplineSurface(vertices, compute_uv_mapping(vertices),
                                        num_u, 2, res_u, res_v,
                                        order_u, order_v, is_cylinder,
                                        order, garbage)
    /\ last' = Constructed("BSplineSurface")
    /\ UNCHANGED <<mesh, sim, twin, cmp, kn, ui>>

\* the main loop: a step of the constructed simulator
ConfigStep == sim # NoSimulator /\ bs # NoSurface /\ Step

NextConfig == ConstructSimulator \/ ConstructSurface \/ ConfigStep

SpecConfig == InitConfig /\ [][NextConfig]_vars

\* C15: an invalid configuration (substep count below 1, order above
\* MAX_ORDER, resolution below 2) is rejected before any computation: no
\* simulator and no surface exists with it, so no step and no evaluation
\* runs with it.
InvalidConfigRejected ==
    /\ last.op = "step" => sim.num_substeps >= 1
    /\ bs # NoSurface =>
           /\ bs.order_u <= MAX_ORDER /\ bs.order_v <= MAX_ORDER
           /\ bs.res_u >= 2 /\ bs.res_v >= 2

\* C16: construction fails when the arrays are inconsistent (the grid
\* size does not match the vertex count) or an edge connects a vertex to
\* itself: no simulator and no surface exists with such arrays.
InconsistentArraysRejected ==
    /\ sim # NoSimulator =>
           \A i \in EdgeIds(sim) : sim.ti_edges[i][1] # sim.ti_edges[i][2]
    /\ bs # NoSurface => bs.num_u * bs.num_v = len(bs.control_vertices)

----------------------------------------------------------------------------
(* The span searches, called with the parameters the kernel passes:        *)
(* u = i / (res_u - 1) and v = j / (res_v - 1), which is 0 / 0 = NaN for a *)
(* resolution of 1                                                         *)

\* the parameters
Parameters ==
    {<<0, 1>>, <<1, 5>>, <<1, 4>>, <<1, 3>>, <<1, 2>>, <<2, 3>>, <<3, 4>>,
     <<4, 5>>, <<1, 1>>, NaNF}

\* the grids of the surfaces the searches run on: up to five rows or columns
SpanGrids ==
    {<<<<0, 4>>, <<0, 4>>>>, <<<<0, 4, 8>>, <<0, 4>>>>,
     <<<<0, 4, 8, 12>>, <<0, 4>>>>, <<<<0, 4, 8, 12, 16>>, <<0, 4>>>>,
     <<<<0, 4>>, <<0, 4, 8, 12>>>>, <<<<0, 4, 8>>, <<0, 4, 8>>>>}

InitSpan ==
    /\ mesh = CHOOSE m \in Meshes : Cardinality(DOMAIN m.edges) = 2
    /\ sim = ClothSimulator(mesh, 1, 1)
    /\ twin = sim
    /\ last = Constructed("init")
    /\ cmp = [mode |-> "single", wind_seen |-> FALSE]
    /\ kn = NoKnots
    /\ ui = NoUi
    /\ \E grid \in SpanGrids, is_cylinder \in BOOLEAN,
          garbage \in OutOfBoundsReads :
          LET num_u == Len(grid[1])
              num_v == Len(grid[2])
              vertices == GridVertices(grid[1], grid[2])
          IN  \E order_u \in {k \in Orders : k <= num_u},
                 order_v \in {k \in Orders : k <= num_v} :
                  bs = BSplineSurface(vertices, compute_uv_mapping(vertices),
                                      num_u, num_v, 2, 2, order_u, order_v,
                                      is_cylinder, <<0, 1, 2, 3>>, garbage)

\* the record of a span search: the parameter p passed, the parameter u
\* searched for and the index d returned
Searched(op, p, u, d) ==
    [op |-> op, raised |-> FALSE, p |-> p, u |-> u, d |-> d]

\* d_u = self.find_knot_index_u(u) of the open surface (line 229)
FindKnotIndexU ==
    /\ ~bs.is_cylinder
    /\ \E p \in Parameters :
           last' = Searched("find_knot_index_u", p, p, find_knot_index_u(bs, p))
    /\ UNCHANGED <<mesh, sim, twin, cmp, kn, bs, ui>>

\* d_v = self.find_knot_index_v(v) (line 230)
FindKnotIndexV ==
    /\ \E p \in Parameters :
           last' = Searched("find_knot_index_v", p, p, find_knot_index_v(bs, p))
    /\ UNCHANGED <<mesh, sim, twin, cmp, kn, bs, ui>>

\* the clamp and d_u = self.find_knot_index_u_periodic(u) of the closed
\* surface (lines 223-226)
FindKnotIndexUPeriodic ==
    /\ bs.is_cylinder
    /\ \E p \in Parameters :
           last' = Searched("find_knot_index_u_periodic", p, clamp_u(bs, p),
                            find_knot_index_u_periodic(bs, clamp_u(bs, p)))
    /\ UNCHANGED <<mesh, sim, twin, cmp, kn, bs, ui>>

NextSpan == FindKnotIndexU \/ FindKnotIndexV \/ FindKnotIndexUPeriodic

SpecSpan == InitSpan /\ [][NextSpan]_vars

\* the knot vector, the order and the number of knots of the last search
SearchedKnots == IF last.op = "find_knot_index_v" THEN bs.V ELSE bs.U

SearchedOrder == IF last.op = "find_knot_index_v" THEN bs.order_v ELSE bs.order_u

SearchedNumKnots ==
    IF last.op = "find_knot_index_v" THEN bs.num_V_knot ELSE bs.num_U_knot

\* the three cases of a parameter of [0, 1] in the open span search
OpenSpanInDomain ==
    last.op \in {"find_knot_index_u", "find_knot_index_v"} =>
        LET K == SearchedKnots
            k == SearchedOrder
            numKnots == SearchedNumKnots
            p == last.p
            d == last.d
        IN  /\ FEq(p, <<0, 1>>) => d = k - 1
            /\ FEq(p, <<1, 1>>) => d = numKnots - k
            /\ (FLess(<<0, 1>>, p) /\ FLess(p, <<1, 1>>)) =>
                   /\ k - 1 <= d /\ d < numKnots - k
                   /\ FLeq(K[d], p) /\ FLess(p, K[d + 1])

\* C23: open span search on a clamped knot vector K of order k: d = k - 1
\* for p = 0, d = numKnots - k for p = 1, the d of k - 1 .. numKnots - k - 1
\* with K[d] <= p < K[d + 1] for 0 < p < 1, and the last index of the scan,
\* numKnots - k - 1, when no interval contains p.
OpenSpanSearch ==
    /\ OpenSpanInDomain
    /\ last.op \in {"find_knot_index_u", "find_knot_index_v"} =>
           LET K == SearchedKnots
               none == \A i \in 0 .. (SearchedNumKnots - 2) :
                          ~(FLeq(K[i], last.p) /\ FLess(last.p, K[i + 1]))
           IN  (none /\ ~FEq(last.p, <<1, 1>>)) =>
                   last.d = SearchedNumKnots - SearchedOrder - 1

\* C24: closed span search: the parameter searched for is the parameter
\* passed, clamped into [U[order_u - 1], U[num_u + order_u - 2]]; the index
\* d returned lies in order_u - 1 .. num_u + order_u - 2, with
\* U[d] <= u < U[d + 1] below the upper bound and d = num_u + order_u - 2 at
\* the upper bound.
ClosedSpanSearch ==
    last.op = "find_knot_index_u_periodic" =>
        LET lo == bs.U[bs.order_u - 1]
            hi == bs.U[bs.num_u + bs.order_u - 2]
            p == last.p
            u == last.u
            d == last.d
        IN  /\ FLeq(lo, u) /\ FLeq(u, hi)
            /\ (FLeq(lo, p) /\ FLeq(p, hi)) => FEq(u, p)
            /\ FLess(p, lo) => FEq(u, lo)
            /\ FLess(hi, p) => FEq(u, hi)
            /\ bs.order_u - 1 <= d /\ d <= bs.num_u + bs.order_u - 2
            /\ FLess(u, hi) => (FLeq(bs.U[d], u) /\ FLess(u, bs.U[d + 1]))
            /\ FEq(u, hi) => d = bs.num_u + bs.order_u - 2

\* a search of a closed surface at the upper bound of the domain, reached by
\* the clamp of a larger parameter
ClosedSpanSearchWitness ==
    /\ last.op = "find_knot_index_u_periodic"
    /\ FLess(bs.U[bs.num_u + bs.order_u - 2], last.p)
    /\ FEq(last.u, bs.U[bs.num_u + bs.order_u - 2])
    /\ last.d = bs.num_u + bs.order_u - 2
    /\ last.d > bs.order_u - 1

----------------------------------------------------------------------------
(* utils/vertices_selector.py and its construction in main.py              *)

\* the parameters, after self, of VerticesSelector.__init__
VerticesSelector_params ==
    <<"window_width", "window_height", "camera", "canvas", "ti_vertices",
      "num_vertices", "ti_faces", "num_faces">>

\* the arguments main passes: the window size, the camera, the canvas, the
\* field simulator.ti_vertices and simulator.num_vertices.  A field is
\* passed by reference: the argument is the name of the simulator's field.
selector_call_args(s) ==
    <<800, 600, "camera", "canvas", "ti_vertices", s.num_vertices>>

\* no VerticesSelector has been constructed
NoSelector == [built |-> FALSE]

\* VerticesSelector(...): the call binds its arguments or raises TypeError;
\* the object keeps the reference to the field it is given and starts with
\* nothing selected
VerticesSelector(args) ==
    IF ~Binds(args, VerticesSelector_params)
    THEN [built |-> FALSE, raised |-> TRUE]
    ELSE [built |-> TRUE, raised |-> FALSE,
          window_width |-> args[1], window_height |-> args[2],
          ti_vertices |-> args[5], num_vertices |-> args[6],
          is_dragging |-> FALSE, drag_start |-> <<>>, drag_end |-> <<>>,
          selected_indices |-> [i \in 0 .. (args[6] - 1) |-> 0]]

InitPick ==
    /\ mesh \in Meshes
    /\ \E k \in StiffnessChoices, n \in SubstepChoices :
           sim = ClothSimulator(mesh, k, n)
    /\ twin = sim
    /\ last = Constructed("init")
    /\ cmp = [mode |-> "single", wind_seen |-> FALSE]
    /\ kn = NoKnots
    /\ bs = NoSurface
    /\ ui = [pc |-> "off", selector |-> NoSelector]

\* selector = VerticesSelector(window_width, window_height, camera, canvas,
\* simulator.ti_vertices, simulator.num_vertices)
ConstructSelector ==
    /\ LET selector == VerticesSelector(selector_call_args(sim))
       IN  /\ ui' = [ui EXCEPT !.selector =
                                   IF selector.raised THEN @ ELSE selector]
           /\ last' = [Constructed("VerticesSelector") EXCEPT
                           !.raised = selector.raised,
                           !.frame_before = sim.sim_frame]
    /\ UNCHANGED <<mesh, sim, twin, cmp, kn, bs>>

NextPick == Step \/ Reset \/ SetParams \/ ConstructSelector

SpecPick == InitPick /\ [][NextPick]_vars

\* C26: picking reads the live particle buffer: the selector main constructs
\* exists and selects by the field x_cur of the simulator, the positions at
\* the time of the selection, also after Step calls.
PickingReadsLiveBuffer ==
    last.op = "VerticesSelector" =>
        /\ ~last.raised
        /\ ui.selector.built
        /\ ui.selector.ti_vertices = "x_cur"

----------------------------------------------------------------------------
(* main.py: the main loop                                                  *)

\* the edges of a plane of nu x nv vertices (edges_unique of the OBJ mesh):
\* along the rows first, then along the columns
PlaneEdges(nu, nv) ==
    LET along == nu * (nv - 1)
        across == (nu - 1) * nv
    IN  [e \in 0 .. (along + across - 1) |->
            IF e < along
            THEN <<(e \div (nv - 1)) * nv + (e % (nv - 1)),
                   (e \div (nv - 1)) * nv + (e % (nv - 1)) + 1>>
            ELSE <<e - along, e - along + nv>>]

\* a skirt: four particles around the y axis at each of two heights; particle
\* 2 a + h stands at the a-th quarter turn and at height 4 h
RingVertices ==
    [i \in 0 .. 7 |->
        <<<<4, 0, -4, 0>>[(i \div 2) + 1], 4 * (i % 2),
          <<0, 4, 0, -4>>[(i \div 2) + 1]>>]

\* its edges: around the two rings, then between them
RingEdges ==
    [e \in 0 .. 11 |->
        IF e < 8
        THEN <<2 * (e \div 2) + (e % 2), 2 * (((e \div 2) + 1) % 4) + (e % 2)>>
        ELSE <<2 * (e - 8), 2 * (e - 8) + 1>>]

\* (arctan2(z, x) + pi) / (2 pi) for a point on an axis
turn(x, z) ==
    IF z = 0 /\ x < 0 THEN <<1, 1>>
    ELSE IF x = 0 /\ z > 0 THEN <<3, 4>>
    ELSE IF x = 0 /\ z < 0 THEN <<1, 4>>
    ELSE <<1, 2>>

\* CylindricalMapping.compute_uv_mapping: u from the angle around the y axis
\* and v from the height, normalised by the extent of the vertices
compute_cylinder_uv_mapping(vertices) ==
    LET ys == {vertices[i][2] : i \in DOMAIN vertices}
        y_min == MinOf(ys)
        y_max == MaxOf(ys)
    IN  [i \in DOMAIN vertices |->
            <<turn(vertices[i][1], vertices[i][3]),
              IF y_max # y_min THEN Frac(vertices[i][2] - y_min, y_max - y_min)
              ELSE Frac(vertices[i][2] - y_min, 1)>>]

\* the OBJLoader objects main loads, with the arguments main gives to the
\* BSplineSurface built on each: a plane and the skirt (the second plane of
\* main differs from the first in its size only)
Loaded ==
    [model_8 |->
        [vertices_np |-> GridVertices(<<0, 4, 8>>, <<0, 4>>),
         edges_np |-> PlaneEdges(3, 2),
         mapping |-> compute_uv_mapping(GridVertices(<<0, 4, 8>>, <<0, 4>>)),
         num_u |-> 3, num_v |-> 2, res_u |-> 3, res_v |-> 2, order |-> 2,
         is_cylinder |-> FALSE],
     skirt |->
        [vertices_np |-> RingVertices,
         edges_np |-> RingEdges,
         mapping |-> compute_cylinder_uv_mapping(RingVertices),
         num_u |-> 4, num_v |-> 2, res_u |-> 2, res_v |-> 2, order |-> 2,
         is_cylinder |-> TRUE]]

Models == DOMAIN Loaded

\* simulator_8 = ClothSimulator(model_8, ...) and the like
simulator_of(m) ==
    ClothSimulator([vertices |-> Loaded[m].vertices_np,
                    edges |-> Loaded[m].edges_np], 1, 1)

\* b_spline_8 = BSplineSurface(model_8.vertices_np, uv_mapper_8.mapping, ...)
\* and the like; only the skirt is closed
b_spline_of(m, order, garbage) ==
    BSplineSurface(Loaded[m].vertices_np, Loaded[m].mapping,
                   Loaded[m].num_u, Loaded[m].num_v,
                   Loaded[m].res_u, Loaded[m].res_v,
                   Loaded[m].order, Loaded[m].order, Loaded[m].is_cylinder,
                   order, garbage)

\* the number of samples of the surface of a model
Samples(m) == Loaded[m].res_u * Loaded[m].res_v

\* nothing has been drawn in this frame
NotRendered == [mesh |-> "none"]

\* the buttons of the options window; at most one is clicked in a frame
Buttons == {"none", "Start/Pause", "Stop"} \cup Models

\* the buttons whose handler resets the simulator and the surface
Resetting == {"Stop"} \cup Models

\* simulator.reset() and b_spline.reset() of the model that is current
reset_current(u, order, garbage) ==
    [u EXCEPT !.sim_running = FALSE,
              !.sim_frame = 0,
              !.simulators[u.current] = reset(@),
              !.b_splines[u.current] = reset_surface(@, order, garbage)]

\* the buttons of gui_options (lines 150-190)
press(u, button, order, garbage) ==
    IF button = "Start/Pause" THEN [u EXCEPT !.sim_running = ~@]
    ELSE IF button = "Stop" THEN reset_current(u, order, garbage)
    ELSE IF button \in Models
         THEN reset_current([u EXCEPT !.current = button], order, garbage)
    ELSE u

\* the sliders and the checkboxes of gui_options (lines 192-200)
widgets(u, stiffness, substeps, use_bspline, wind) ==
    [u EXCEPT !.stretch_stiffness_gui = stiffness,
              !.substeps_gui = substeps,
              !.use_bspline = use_bspline,
              !.simulators[u.current] =
                  gui_options(@, stiffness, substeps, wind)]

\* the simulator block of the loop (lines 282-286); an exception that
\* step() raises leaves the loop and main
simulate(u, e, order, garbage) ==
    IF e.raised
    THEN [u EXCEPT !.simulators[u.current] = e.s, !.pc = "raised"]
    ELSE [u EXCEPT !.simulators[u.current] = e.s,
                   !.b_splines[u.current] =
                       evaluate_surface_wrapper(@, e.s.x_cur, order, garbage),
                   !.sim_frame = @ + 1,
                   !.pc = "renderer"]

\* the renderer block (lines 295-301): what scene.mesh is given
render(u) ==
    IF u.use_bspline
    THEN [mesh |-> "surface_points_field",
          vertices |-> u.b_splines[u.current].surface_points_field,
          indices |-> u.b_splines[u.current].surface_faces_np]
    ELSE [mesh |-> "x_cur",
          vertices |-> u.simulators[u.current].x_cur,
          indices |-> <<>>]

\* the initial values of the sliders (scaled like StiffnessChoices and
\* SubstepChoices)
InitMain ==
    /\ mesh = CHOOSE m \in Meshes : Cardinality(DOMAIN m.edges) = 2
    /\ sim = ClothSimulator(mesh, 1, 1)
    /\ twin = sim
    /\ last = Constructed("init")
    /\ cmp = [mode |-> "single", wind_seen |-> FALSE]
    /\ kn = NoKnots
    /\ bs = NoSurface
    /\ \E garbage \in [Models -> OutOfBoundsReads] :
           ui = [pc |-> "gui_options",
                 sim_running |-> FALSE,
                 sim_frame |-> 0,
                 stretch_stiffness_gui |-> 1,
                 substeps_gui |-> 1,
                 use_bspline |-> TRUE,
                 current |-> "model_8",
                 simulators |-> [m \in Models |-> simulator_of(m)],
                 b_splines |-> [m \in Models |->
                                   b_spline_of(m, [t \in 1 .. Samples(m) |-> t - 1],
                                               garbage[m])],
                 rendered |-> NotRendered]

\* gui_options(): one button at most, then the sliders and the checkboxes;
\* the sliders are left where they are
GuiOptions ==
    /\ ui.pc = "gui_options"
    /\ \E button \in Buttons, stiffness \in {ui.stretch_stiffness_gui},
          use_bspline \in BOOLEAN, wind \in BOOLEAN :
           LET target == IF button \in Models THEN button ELSE ui.current
           IN  \E order \in IF button \in Resetting
                             THEN SampleOrders(Samples(target)) ELSE {<<>>},
                  garbage \in IF button \in Resetting
                               THEN OutOfBoundsReads ELSE {NaNVec} :
                   ui' = [widgets(press(ui, button, order, garbage), stiffness,
                                  ui.substeps_gui, use_bspline, wind)
                             EXCEPT !.rendered = NotRendered, !.pc = "events"]
    /\ UNCHANGED <<mesh, sim, twin, last, cmp, kn, bs>>

\* the event handler: the keys 'f' and 'r' on the current simulator; the
\* selection is what the selector holds
Events ==
    /\ ui.pc = "events"
    /\ \E key \in {"none", "f", "r"} :
           ui' = [ui EXCEPT
                     !.simulators[ui.current] =
                         IF key = "f" THEN fix_selected_particles(@, {0})
                         ELSE IF key = "r" THEN reset_fixed(@)
                         ELSE @,
                     !.pc = "simulator"]
    /\ UNCHANGED <<mesh, sim, twin, last, cmp, kn, bs>>

\* the wind of one frame: the same force on every particle, and no draw
\* when the wind is off
Gusts(s) ==
    IF s.enable_wind
    THEN {[i \in Movable(s) |-> f] : f \in WindForces}
    ELSE {[i \in Movable(s) |-> CHOOSE f \in WindForces : TRUE]}

\* the simulator block
Simulate ==
    /\ ui.pc = "simulator"
    /\ IF ui.sim_running
       THEN \E w \in Gusts(ui.simulators[ui.current]),
               order \in SampleOrders(Samples(ui.current)),
               garbage \in OutOfBoundsReads :
                ui' = simulate(ui, step(ui.simulators[ui.current], w),
                               order, garbage)
       ELSE ui' = [ui EXCEPT !.pc = "renderer"]
    /\ UNCHANGED <<mesh, sim, twin, last, cmp, kn, bs>>

\* the renderer block and window.show()
Render ==
    /\ ui.pc = "renderer"
    /\ ui' = [ui EXCEPT !.rendered = render(ui), !.pc = "gui_options"]
    /\ UNCHANGED <<mesh, sim, twin, last, cmp, kn, bs>>

NextMain == GuiOptions \/ Events \/ Simulate \/ Render

SpecMain == InitMain /\ [][NextMain]_vars

====
